---- MODULE Spec2Model ----
(***************************************************************************)
(* Normalized query-result cache of packages/data-connect.                 *)
(*                                                                         *)
(* Two Cache classes are modelled, each from its source:                   *)
(*   impl = "cache" : src/cache/Cache.ts, per-field listener sets, the     *)
(*                    classifier predicates of its util module;            *)
(*   impl = "core"  : src/core/Cache.ts, the normalize /                   *)
(*                    makeResultTreeCacheKey class the unit tests import.  *)
(* A behaviour is one Cache instance of either class receiving a sequence  *)
(* of updateCache calls.                                                   *)
(*                                                                         *)
(* JavaScript values are tagged records.  An object is the sequence of its *)
(* own entries <<name, value>> in insertion order (Object.entries order).  *)
(* A StubDataObject that is registered with a BackingDataObject is mutable *)
(* and shared, so it lives in the heap `sdos` and is denoted by Sdo(id);   *)
(* every other object is never written after it is built and is a value.   *)
(* A JavaScript string built by concatenation is the sequence of its       *)
(* pieces.                                                                 *)
(***************************************************************************)
EXTENDS Integers, Sequences, FiniteSets, TLC

VARIABLES
  impl,       \* which Cache class this instance is
  srtCache,   \* Cache.srtCache / Cache.resultTreeCache : key -> result tree
  bdoCache,   \* Cache.bdoCache : key -> BackingDataObject
  sdos,       \* heap of the StubDataObjects handed to createBdo / updateBdo
  born,       \* history: the entries each StubDataObject was created with
  returned,   \* history: the StubDataObjects built by calls that returned
  cached,     \* history: the result data of the calls that returned
  calls,      \* history: number of updateCache calls made
  last,       \* history: the last call, its outcome, the state before it,
              \*          the views its propagation wrote to, the call before
  keyArgs,    \* arguments handed to a static key function
  keys,       \* the keys it returned for them
  classified, \* a value handed to the classifier predicates
  verdict     \* predicate name -> what it returned for the value

vars == <<impl, srtCache, bdoCache, sdos, born, returned, cached, calls, last,
          keyArgs, keys, classified, verdict>>

-----------------------------------------------------------------------------
(* Values *)

Undefined == [k |-> "undefined"]
Null == [k |-> "null"]
Bool(b) == [k |-> "boolean", b |-> b]
Num(n) == [k |-> "number", n |-> n]
Str(s) == [k |-> "string", s |-> s]
Arr(e) == [k |-> "array", e |-> e]
Obj(f) == [k |-> "object", f |-> f]
Sdo(id) == [k |-> "sdo", id |-> id]
BigInt(n) == [k |-> "bigint", n |-> n]

(* Array.isArray(value) and typeof value *)
IsArray(value) == value.k = "array"
TypeOf(value) ==
  CASE value.k \in {"undefined", "boolean", "number", "string", "bigint"} -> value.k
    [] OTHER -> "object"

(* entries of an object: name lookup, `name in obj`, obj[name] = value *)
Names(f) == {f[i][1] : i \in DOMAIN f}
Has(f, name) == \E i \in DOMAIN f : f[i][1] = name
Get(f, name) ==
  IF Has(f, name) THEN f[CHOOSE i \in DOMAIN f : f[i][1] = name][2] ELSE Undefined
Assign(f, name, value) ==
  IF Has(f, name)
  THEN [i \in DOMAIN f |-> IF f[i][1] = name THEN <<name, value>> ELSE f[i]]
  ELSE Append(f, <<name, value>>)

(* Map.set *)
MapSet(m, key, value) == (key :> value) @@ m

Every(P(_), e) == \A i \in DOMAIN e : P(e[i])

-----------------------------------------------------------------------------
(* Value classifier: the util module of src/cache *)

isScalar(value) ==
  IF IsArray(value) THEN FALSE
  ELSE CASE TypeOf(value) \in {"undefined", "boolean", "number", "string"} -> TRUE
         [] TypeOf(value) = "object" -> value = Null
         [] OTHER -> FALSE

(* Object.keys(value).length for a value whose typeof is 'object' and that
   is not null; a StubDataObject carries at least __typename and __id *)
KeyCount(value) ==
  CASE value.k = "array" -> Len(value.e)
    [] value.k = "object" -> Len(value.f)
    [] OTHER -> 2

(* the shallow check without its Array.isArray conjunct *)
isObjectWithKeys(value) ==
  /\ TypeOf(value) = "object"
  /\ value # Null
  /\ KeyCount(value) >= 1

isShallowSelectionSet(value) ==
  /\ TypeOf(value) = "object"
  /\ value # Null
  /\ ~IsArray(value)
  /\ KeyCount(value) >= 1

(* a check of the type name only *)
isTyped(value) ==
  \/ value.k = "sdo"
  \/ value.k = "object" /\ Has(value.f, "__typename")

isNormalizeable(value) ==
  \/ value.k = "sdo"
  \/ value.k = "object" /\ Has(value.f, "__typename") /\ Has(value.f, "__id")

-----------------------------------------------------------------------------
(* Key functions.  JSON.stringify and string concatenation yield the       *)
(* sequence of the pieces of the resulting string.                         *)

RECURSIVE JSONstringify(_)
RECURSIVE JSONelements(_, _)
RECURSIVE JSONmembers(_, _, _)

(* elements of an array; undefined elements are written as null *)
JSONelements(e, i) ==
  IF i > Len(e) THEN <<>>
  ELSE (IF i > 1 THEN <<",">> ELSE <<>>)
       \o (IF e[i].k = "undefined" THEN <<"null">> ELSE JSONstringify(e[i]))
       \o JSONelements(e, i + 1)

(* members of an object in insertion order; undefined members are skipped *)
JSONmembers(f, i, first) ==
  IF i > Len(f) THEN <<>>
  ELSE IF f[i][2].k = "undefined" THEN JSONmembers(f, i + 1, first)
  ELSE (IF first THEN <<>> ELSE <<",">>)
       \o <<"\"", f[i][1], "\"", ":">> \o JSONstringify(f[i][2])
       \o JSONmembers(f, i + 1, FALSE)

JSONstringify(value) ==
  CASE value.k = "undefined" -> <<"undefined">>
    [] value.k = "null" -> <<"null">>
    [] value.k = "boolean" -> <<IF value.b THEN "true" ELSE "false">>
    [] value.k = "number" -> <<ToString(value.n)>>
    [] value.k = "string" -> <<"\"", value.s, "\"">>
    [] value.k = "array" -> <<"[">> \o JSONelements(value.e, 1) \o <<"]">>
    [] value.k = "object" -> <<"{">> \o JSONmembers(value.f, 1, TRUE) \o <<"}">>

(* string + '|' : the left operand converted to a string *)
ToStringJS(value) ==
  CASE value.k = "string" -> <<value.s>>
    [] value.k = "number" -> <<ToString(value.n)>>
    [] value.k = "boolean" -> <<IF value.b THEN "true" ELSE "false">>
    [] value.k = "null" -> <<"null">>
    [] value.k = "undefined" -> <<"undefined">>
    [] OTHER -> <<"[object Object]">>

(* a key without the id: every entity of a type would share one record *)
bdoCacheKeyOfType(typename, id) ==
  ToStringJS(typename) \o <<"|">>

(* a key built with the string conversion of the id, typename + '|' + id *)
bdoCacheKeyOfString(typename, id) ==
  ToStringJS(typename) \o <<"|">> \o ToStringJS(id)

bdoCacheKey(typename, id) ==
  ToStringJS(typename) \o <<"|">> \o JSONstringify(id)

makeBdoCacheKey(typename, id) ==
  ToStringJS(typename) \o <<"|">> \o JSONstringify(id)

makeResultTreeCacheKey(queryName, variables) ==
  <<queryName, "|">> \o JSONstringify(variables)

-----------------------------------------------------------------------------
(* Object.entries(value): ok = FALSE is the TypeError for null and        *)
(* undefined.  A string has one entry per character; the strings that      *)
(* reach this operator have at most one character.                         *)

ObjectEntries(value) ==
  CASE value.k \in {"undefined", "null"} -> [ok |-> FALSE, f |-> <<>>]
    [] value.k = "object" -> [ok |-> TRUE, f |-> value.f]
    [] value.k = "array" ->
         [ok |-> TRUE, f |-> [i \in DOMAIN value.e |-> <<ToString(i - 1), value.e[i]>>]]
    [] value.k = "string" ->
         [ok |-> TRUE, f |-> IF value.s = "" THEN <<>> ELSE <<<<"0", value>>>>]
    [] OTHER -> [ok |-> TRUE, f |-> <<>>]

(* The names used in variables records, in ascending code-unit order: the *)
(* order Array.prototype.sort gives entries, which it compares as the      *)
(* strings "name,value".                                                   *)
NameOrder == <<"0", "a", "b", "filter", "id", "limit", "title">>
Rank(name) == CHOOSE i \in DOMAIN NameOrder : NameOrder[i] = name

RECURSIVE SortEntries(_)
SortEntries(f) ==
  IF f = <<>> THEN <<>>
  ELSE LET m == CHOOSE i \in DOMAIN f :
                  \A j \in DOMAIN f : Rank(f[i][1]) <= Rank(f[j][1])
           rest == [j \in 1..(Len(f) - 1) |-> IF j < m THEN f[j] ELSE f[j + 1]]
       IN <<f[m]>> \o SortEntries(rest)

EntryPairs(f) == Arr([i \in DOMAIN f |-> Arr(<<Str(f[i][1]), f[i][2]>>)])

(* Cache.srtCacheKey of src/cache: ok = FALSE when Object.entries throws *)
srtCacheKey(queryName, variables) ==
  LET en == ObjectEntries(variables)
  IN [ok |-> en.ok,
      key |-> IF en.ok
              THEN <<queryName, "|">> \o JSONstringify(EntryPairs(SortEntries(en.f)))
              ELSE <<>>]

-----------------------------------------------------------------------------
(* src/cache/Cache.ts.  The operators thread the record                    *)
(*   st = [sdos, bdo, born, err]                                           *)
(* through the traversal; err = TRUE once a TypeError has been thrown,     *)
(* after which nothing more is executed.  A result is [st, v].             *)

(* F applied to the value of e, which is computed once *)
Bind(e, F(_)) == CHOOSE y \in {F(x) : x \in {e}} : TRUE

Throw(st) == [st EXCEPT !.err = TRUE]

(* BackingDataObject.updateListeners: sdo[fieldName] = value for each sdo *)
(* in the field's listener set, none when the field has no set             *)
updateListeners(st, key, fieldName, value) ==
  LET ls == st.bdo[key].listeners
      to == IF fieldName \in DOMAIN ls THEN ls[fieldName] ELSE {}
  IN [st EXCEPT !.sdos = [id \in DOMAIN st.sdos |->
                            IF id \in to THEN Assign(st.sdos[id], fieldName, value)
                            ELSE st.sdos[id]],
                !.wrote = @ \cup to]

(* BackingDataObject.updateFromServer *)
updateFromServer(st, key, fieldName, value) ==
  Bind([st EXCEPT !.bdo[key].serverValues = MapSet(@, fieldName, value)],
       LAMBDA s : updateListeners(s, key, fieldName, value))

(* Cache.createBdo: an empty serverValues map, one listener set per field *)
createBdo(st, bdoKey, data, id) ==
  [st EXCEPT !.bdo = MapSet(@, bdoKey,
     [typedKey |-> bdoKey,
      serverValues |-> <<>>,
      listeners |-> [n \in Names(data) |-> {id}]])]

(* the listener registration that ends an iteration of Cache.updateBdo:   *)
(* listeners.get(fieldName) is undefined for a field without a set         *)
addListener(st, key, fieldName, id) ==
  IF fieldName \in DOMAIN st.bdo[key].listeners
  THEN [st EXCEPT !.bdo[key].listeners[fieldName] = @ \cup {id}]
  ELSE Throw(st)

(* one iteration of the loop of Cache.updateBdo *)
updateBdoField(st, key, fieldName, value, id) ==
  Bind(IF value.k = "array"
       THEN IF Every(isScalar, value.e)
            THEN updateFromServer(st, key, fieldName, value)
            ELSE IF ~Every(isNormalizeable, value.e)
            THEN updateFromServer(st, key, fieldName, value)
            ELSE st
       ELSE IF isScalar(value)
       THEN updateFromServer(st, key, fieldName, value)
       ELSE st,
       LAMBDA s : addListener(s, key, fieldName, id))

RECURSIVE updateBdoFrom(_, _, _, _, _)
updateBdoFrom(st, key, data, i, id) ==
  IF st.err \/ i > Len(data) THEN st
  ELSE Bind(updateBdoField(st, key, data[i][1], data[i][2], id),
            LAMBDA s : updateBdoFrom(s, key, data, i + 1, id))

(* Cache.updateBdo *)
updateBdo(st, key, data, id) == updateBdoFrom(st, key, data, 1, id)

(* a new StubDataObject in the heap *)
NewSdo(st, f) ==
  [st EXCEPT !.sdos = Append(@, f), !.born = Append(@, f)]

RECURSIVE normalizeSelectionSet(_, _, _)
RECURSIVE normalizeEntries(_, _, _, _, _)
RECURSIVE mapCacheField(_, _, _, _)

(* Cache.cacheField; bound = FALSE when it runs as a callback of          *)
(* Array.prototype.map, where `this` is undefined                          *)
cacheField(st, value, bound) ==
  IF isShallowSelectionSet(value)
  THEN IF bound THEN normalizeSelectionSet(st, value, TRUE)
       ELSE [st |-> Throw(st), v |-> Undefined]
  ELSE [st |-> st, v |-> value]

(* value.map(this.cacheField) *)
mapCacheField(st, e, i, acc) ==
  IF st.err \/ i > Len(e) THEN [st |-> st, v |-> acc]
  ELSE Bind(cacheField(st, e[i], FALSE),
            LAMBDA r : Bind(Append(acc, r.v),
                            LAMBDA a : mapCacheField(r.st, e, i + 1, a)))

(* the value cached for one field of a selection set *)
cacheEntry(st, value) ==
  IF value.k = "array"
  THEN Bind(mapCacheField(st, value.e, 1, <<>>),
            LAMBDA m :
              IF Every(isScalar, m.v) \/ Every(isShallowSelectionSet, m.v)
              THEN [st |-> m.st, v |-> Arr(m.v)]
              ELSE [st |-> m.st, v |-> value])   \* mixed array
  ELSE cacheField(st, value, TRUE)

(* the loop over Object.entries(selectionSet) of normalizeSelectionSet;   *)
(* both branches of its body read this.cacheField                          *)
normalizeEntries(st, f, i, acc, bound) ==
  IF st.err \/ i > Len(f) THEN [st |-> st, v |-> acc]
  ELSE IF ~bound THEN [st |-> Throw(st), v |-> acc]
  ELSE Bind(cacheEntry(st, f[i][2]),
            LAMBDA r : Bind(Append(acc, <<f[i][1], r.v>>),
                            LAMBDA a : normalizeEntries(r.st, f, i + 1, a, bound)))

(* the end of normalizeSelectionSet: link the rebuilt selection set to a  *)
(* BackingDataObject when it is normalizeable                              *)
linkToBdo(st, data, cachedSelectionSet) ==
  IF isNormalizeable(Obj(cachedSelectionSet))
  THEN Bind(NewSdo(st, cachedSelectionSet),
            LAMBDA s :
              LET key == bdoCacheKey(Get(cachedSelectionSet, "__typename"),
                                     Get(cachedSelectionSet, "__id"))
                  id == Len(s.sdos)
              IN [st |-> IF key \in DOMAIN s.bdo
                         THEN updateBdo(s, key, data, id)
                         ELSE createBdo(s, key, data, id),
                  v |-> Sdo(id)])
  ELSE [st |-> st, v |-> Obj(cachedSelectionSet)]

(* Cache.normalizeSelectionSet *)
normalizeSelectionSet(st, selectionSet, bound) ==
  Bind(ObjectEntries(selectionSet),
       LAMBDA en :
         IF ~en.ok THEN [st |-> Throw(st), v |-> Undefined]
         ELSE Bind(normalizeEntries(st, en.f, 1, <<>>, bound),
                   LAMBDA r : IF r.st.err THEN [st |-> r.st, v |-> Undefined]
                              ELSE linkToBdo(r.st, en.f, r.v)))

RECURSIVE mapNormalizeSelectionSet(_, _, _, _)
(* selectionSet.map(this.normalizeSelectionSet) *)
mapNormalizeSelectionSet(st, e, i, acc) ==
  IF st.err \/ i > Len(e) THEN [st |-> st, v |-> acc]
  ELSE Bind(normalizeSelectionSet(st, e[i], FALSE),
            LAMBDA r : Bind(Append(acc, r.v),
                            LAMBDA a : mapNormalizeSelectionSet(r.st, e, i + 1, a)))

(* createSrt without the Array.isArray branch *)
srtEntryOfSelectionSet(st, selectionSet) ==
  normalizeSelectionSet(st, selectionSet, TRUE)

(* the value createSrt stores for one alias *)
srtEntry(st, selectionSet) ==
  IF selectionSet.k = "array"
  THEN Bind(mapNormalizeSelectionSet(st, selectionSet.e, 1, <<>>),
            LAMBDA m : [st |-> m.st, v |-> Arr(m.v)])
  ELSE normalizeSelectionSet(st, selectionSet, TRUE)

RECURSIVE createSrtFrom(_, _, _, _)
createSrtFrom(st, f, i, srt) ==
  IF st.err \/ i > Len(f) THEN [st |-> st, v |-> srt]
  ELSE Bind(srtEntry(st, f[i][2]),
            LAMBDA r : Bind(Assign(srt, f[i][1], r.v),
                            LAMBDA t : createSrtFrom(r.st, f, i + 1, t)))

(* Cache.createSrt *)
createSrt(st, data) ==
  Bind(ObjectEntries(data),
       LAMBDA en :
         IF ~en.ok THEN [st |-> Throw(st), v |-> Undefined]
         ELSE Bind(createSrtFrom(st, en.f, 1, <<>>),
                   LAMBDA r : [st |-> r.st, v |-> Obj(r.v)]))

-----------------------------------------------------------------------------
(* src/core/Cache.ts, the class with normalize: one listener set per       *)
(* BackingDataObject.  It throws nowhere; st.err stays FALSE.              *)

isCacheableQueryResultData(value) ==
  value.k = "object" /\ Has(value.f, "__typename") /\ Has(value.f, "__id")

(* BackingDataObject.updateFromServer(value, key) *)
coreUpdateFromServer(st, bdoKey, value, key) ==
  LET to == st.bdo[bdoKey].listeners
  IN [st EXCEPT !.bdo[bdoKey].serverValues = MapSet(@, key, value),
                !.sdos = [id \in DOMAIN st.sdos |->
                            IF id \in to THEN Assign(st.sdos[id], key, value)
                            ELSE st.sdos[id]],
                !.wrote = @ \cup to]

(* Cache.createBdo *)
coreCreateBdo(st, bdoKey, data, id) ==
  [st EXCEPT !.bdo = MapSet(@, bdoKey,
     [typedKey |-> bdoKey,
      serverValues |-> [n \in Names(data) |-> Get(data, n)],
      listeners |-> {id}])]

RECURSIVE coreUpdateBdoFrom(_, _, _, _)
coreUpdateBdoFrom(st, bdoKey, data, i) ==
  IF i > Len(data) THEN st
  ELSE Bind(coreUpdateFromServer(st, bdoKey, data[i][2], data[i][1]),
            LAMBDA s : coreUpdateBdoFrom(s, bdoKey, data, i + 1))

(* Cache.updateBdo *)
coreUpdateBdo(st, bdoKey, data, id) ==
  Bind(coreUpdateBdoFrom(st, bdoKey, data, 1),
       LAMBDA s : [s EXCEPT !.bdo[bdoKey].listeners = @ \cup {id}])

RECURSIVE normalize(_, _)
RECURSIVE normalizeItems(_, _, _, _)
RECURSIVE normalizeOwn(_, _, _, _)

(* data.map(item => this.normalize(item)) *)
normalizeItems(st, e, i, acc) ==
  IF i > Len(e) THEN [st |-> st, v |-> acc]
  ELSE Bind(normalize(st, e[i]),
            LAMBDA r : Bind(Append(acc, r.v),
                            LAMBDA a : normalizeItems(r.st, e, i + 1, a)))

(* for (const key in data) obj[key] = this.normalize(data[key]) *)
normalizeOwn(st, f, i, acc) ==
  IF i > Len(f) THEN [st |-> st, v |-> acc]
  ELSE Bind(normalize(st, f[i][2]),
            LAMBDA r : Bind(Assign(acc, f[i][1], r.v),
                            LAMBDA a : normalizeOwn(r.st, f, i + 1, a)))

(* the end of the cacheable branch of normalize: existingBdo was looked   *)
(* up before the fields were normalized                                    *)
linkStub(st, bdoKey, existingBdo, stub) ==
  Bind(NewSdo(st, stub),
       LAMBDA s : [st |-> IF existingBdo
                          THEN coreUpdateBdo(s, bdoKey, stub, Len(s.sdos))
                          ELSE coreCreateBdo(s, bdoKey, stub, Len(s.sdos)),
                   v |-> Sdo(Len(s.sdos))])

(* Cache.normalize *)
normalize(st, data) ==
  IF data.k = "array"
  THEN Bind(normalizeItems(st, data.e, 1, <<>>),
            LAMBDA m : [st |-> m.st, v |-> Arr(m.v)])
  ELSE IF isCacheableQueryResultData(data)
  THEN Bind(makeBdoCacheKey(Get(data.f, "__typename"), Get(data.f, "__id")),
            LAMBDA bdoKey :
              Bind(bdoKey \in DOMAIN st.bdo,
                   LAMBDA existingBdo :
                     Bind(normalizeOwn(st, data.f, 1, <<>>),
                          LAMBDA r : linkStub(r.st, bdoKey, existingBdo, r.v))))
  ELSE IF data.k = "object"
  THEN Bind(normalizeOwn(st, data.f, 1, <<>>),
            LAMBDA r : [st |-> r.st, v |-> Obj(r.v)])
  ELSE [st |-> st, v |-> data]

-----------------------------------------------------------------------------
(* Query results: the entities of the unit tests and the results the      *)
(* tests cache, with the results of the partial-selection and nested       *)
(* scenarios.                                                              *)

Entity(typename, id, fields) ==
  Obj(<<<<"__typename", Str(typename)>>, <<"__id", Str(id)>>, <<"id", Str(id)>>>>
      \o fields)

reviewer1 == Entity("Reviewer", "101", <<<<"name", Str("John Doe")>>>>)
reviewer2 == Entity("Reviewer", "102", <<<<"name", Str("Jane Smith")>>>>)
review1 ==
  Entity("Review", "201", <<<<"text", Str("Amazing!")>>, <<"reviewer", reviewer1>>>>)
review2 ==
  Entity("Review", "202", <<<<"text", Str("A must-see.")>>, <<"reviewer", reviewer2>>>>)
movieSimple1 ==
  Entity("Movie", "1", <<<<"title", Str("The Matrix")>>, <<"releaseYear", Num(1999)>>>>)
movieSimple2 ==
  Entity("Movie", "2",
         <<<<"title", Str("The Dark Knight")>>, <<"releaseYear", Num(2008)>>>>)
movieWithReviews ==
  Entity("Movie", "3", <<<<"title", Str("Inception")>>,
                         <<"reviews", Arr(<<review1, review2>>)>>>>)
updatedMovie == Obj(Assign(movieSimple1.f, "title", Str("The Matrix Reloaded")))
updatedReview == Obj(Assign(review1.f, "text", Str("Actually, it was just okay.")))
updatedReviewer == Entity("Reviewer", "101", <<<<"name", Str("John D.")>>>>)
reassignedReview == Obj(Assign(review1.f, "reviewer", reviewer2))
movieNullReviews == Obj(Assign(movieSimple1.f, "reviews", Null))
primaryGenre == Obj(<<<<"__typename", Str("Genre")>>, <<"name", Str("Sci-Fi")>>>>)
movieWithExtra ==
  Obj(Assign(Assign(movieWithReviews.f, "reviewCount", Num(2)),
             "primaryGenre", primaryGenre))
movieWithGenre == Obj(Assign(movieSimple2.f, "primaryGenre", primaryGenre))
movieDescribed ==
  Entity("Movie", "1", <<<<"title", Str("The Matrix")>>,
                         <<"description", Str("A hacker learns the truth.")>>>>)
movieRedescribed ==
  Entity("Movie", "1", <<<<"description", Str("Neo wakes up.")>>,
                         <<"title", Str("The Matrix Reloaded")>>>>)
featured == Obj(<<<<"label", Str("Top pick")>>, <<"movie", movieSimple1>>>>)
mentored == Obj(Assign(reviewer2.f, "mentor", reviewer2))
genreNullId ==
  Obj(<<<<"__typename", Str("Genre")>>, <<"__id", Null>>, <<"name", Str("Sci-Fi")>>>>)
tagNullTypename ==
  Obj(<<<<"__typename", Null>>, <<"__id", Str("7")>>, <<"name", Str("classic")>>>>)
tagEntity == Entity("Tag", "7", <<<<"name", Str("noir")>>>>)
movieTagged ==
  Obj(Assign(movieSimple2.f, "tags", Arr(<<Str("classic"), tagEntity>>)))
renamedMentor == Entity("Reviewer", "102", <<<<"name", Str("J. Smith")>>>>)
selfMentored == Obj(Assign(reviewer2.f, "mentor", renamedMentor))

QueryResult(name, variables, data) ==
  [name |-> name, variables |-> Obj(variables), data |-> Obj(data)]

Queries ==
  { QueryResult("getMovie", <<<<"id", Str("1")>>>>, <<<<"movie", movieSimple1>>>>),
    QueryResult("listMovies", <<<<"limit", Num(2)>>>>,
                <<<<"movies", Arr(<<movieSimple1, movieSimple2>>)>>>>),
    QueryResult("getMovie", <<<<"id", Str("1")>>>>, <<<<"movie", updatedMovie>>>>),
    QueryResult("searchMovies", <<<<"title", Str("NonExistent")>>>>,
                <<<<"movies", Arr(<<>>)>>>>),
    QueryResult("getMovie", <<<<"id", Str("1")>>>>, <<<<"movie", movieNullReviews>>>>),
    QueryResult("getMovieWithReviews", <<<<"id", Str("3")>>>>,
                <<<<"movie", movieWithReviews>>>>),
    QueryResult("getReview", <<<<"id", Str("201")>>>>, <<<<"review", updatedReview>>>>),
    QueryResult("getReview", <<<<"id", Str("201")>>>>,
                <<<<"review", reassignedReview>>>>),
    QueryResult("getReviewer", <<<<"id", Str("101")>>>>,
                <<<<"reviewer", updatedReviewer>>>>),
    QueryResult("getReviewer", <<<<"id", Str("102")>>>>, <<<<"reviewer", mentored>>>>),
    QueryResult("getMovieWithExtra", <<<<"id", Str("3")>>>>,
                <<<<"movie", movieWithExtra>>>>),
    QueryResult("getMovieGenre", <<<<"id", Str("2")>>>>,
                <<<<"movie", movieWithGenre>>>>),
    QueryResult("getMovieDetails", <<<<"id", Str("1")>>>>,
                <<<<"movie", movieDescribed>>>>),
    QueryResult("getMovieDetails", <<<<"id", Str("1")>>>>,
                <<<<"movie", movieRedescribed>>>>),
    QueryResult("getFeatured", <<>>,
                <<<<"featured", featured>>, <<"movie", movieSimple1>>>>),
    QueryResult("getLabels", <<>>,
                <<<<"genre", genreNullId>>, <<"tag", tagNullTypename>>,
                  <<"total", Num(2)>>>>),
    QueryResult("getMovie", <<<<"id", Str("9")>>>>, <<<<"movie", Null>>>>),
    [name |-> "getMovie", variables |-> Undefined,
     data |-> Obj(<<<<"movie", movieSimple1>>>>)],
    [name |-> "getMovie", variables |-> Null,
     data |-> Obj(<<<<"movie", movieSimple1>>>>)],
    QueryResult("getVersions", <<<<"id", Str("1")>>>>,
                <<<<"old", movieSimple1>>, <<"new", updatedMovie>>>>),
    QueryResult("getMentor", <<<<"id", Str("102")>>>>,
                <<<<"reviewer", selfMentored>>>>),
    QueryResult("getMovieTags", <<<<"id", Str("2")>>>>,
                <<<<"movie", movieTagged>>>>) }

MaxCalls == 3

-----------------------------------------------------------------------------
(* The state machine *)

NoCall == [q |-> [name |-> "", variables |-> Obj(<<>>), data |-> Obj(<<>>)],
           status |-> "none",
           pre |-> [srtCache |-> <<>>, bdoCache |-> <<>>, sdos |-> <<>>],
           wrote |-> {},
           prev |-> [q |-> [name |-> "", variables |-> Obj(<<>>), data |-> Obj(<<>>)],
                     status |-> "none"]]

NoArgs == [fn |-> "", a |-> <<>>, b |-> <<>>]

Init ==
  /\ impl \in {"cache", "core"}
  /\ srtCache = <<>>
  /\ bdoCache = <<>>
  /\ sdos = <<>>
  /\ born = <<>>
  /\ returned = {}
  /\ cached = {}
  /\ calls = 0
  /\ last = NoCall
  /\ keyArgs = NoArgs
  /\ keys = <<>>
  /\ classified = Undefined
  /\ verdict = <<>>

Start ==
  [sdos |-> sdos, bdo |-> bdoCache, born |-> born, err |-> FALSE, wrote |-> {}]

Called(q, threw, wrote) ==
  /\ calls' = calls + 1
  /\ returned' = IF threw THEN returned
                 ELSE returned \cup ((Len(sdos) + 1)..Len(sdos'))
  /\ cached' = IF threw THEN cached ELSE cached \cup {q.data}
  /\ last' = [q |-> q,
              status |-> IF threw THEN "threw" ELSE "returned",
              pre |-> [srtCache |-> srtCache, bdoCache |-> bdoCache, sdos |-> sdos],
              wrote |-> wrote,
              prev |-> [q |-> last.q, status |-> last.status]]

(* Cache.updateCache of src/cache/Cache.ts *)
updateCache(q) ==
  /\ impl = "cache"
  /\ calls < MaxCalls
  /\ \E resultTreeCacheKey \in {srtCacheKey(q.name, q.variables)} :
     \E r \in {IF resultTreeCacheKey.ok THEN createSrt(Start, q.data)
               ELSE [st |-> Throw(Start), v |-> Undefined]} :
        /\ bdoCache' = r.st.bdo
        /\ sdos' = r.st.sdos
        /\ born' = r.st.born
        /\ srtCache' = IF r.st.err THEN srtCache
                       ELSE MapSet(srtCache, resultTreeCacheKey.key, r.v)
        /\ Called(q, r.st.err, r.st.wrote)
  /\ UNCHANGED <<impl, keyArgs, keys, classified, verdict>>

(* Cache.updateCache of src/core/Cache.ts *)
coreUpdateCache(q) ==
  /\ impl = "core"
  /\ calls < MaxCalls
  /\ \E resultTreeCacheKey \in {makeResultTreeCacheKey(q.name, q.variables)} :
     \E r \in {normalize(Start, q.data)} :
        /\ bdoCache' = r.st.bdo
        /\ sdos' = r.st.sdos
        /\ born' = r.st.born
        /\ srtCache' = MapSet(srtCache, resultTreeCacheKey, r.v)
        /\ Called(q, FALSE, r.st.wrote)
  /\ UNCHANGED <<impl, keyArgs, keys, classified, verdict>>

Next ==
  \/ \E q \in Queries : updateCache(q)
  \/ \E q \in Queries : coreUpdateCache(q)

Spec == Init /\ [][Next]_vars

-----------------------------------------------------------------------------
(* Observations used by the properties *)

(* every object found in a query result, at any depth *)
RECURSIVE Nodes(_)
Nodes(value) ==
  CASE value.k = "object" ->
         {value} \cup UNION {Nodes(value.f[i][2]) : i \in DOMAIN value.f}
    [] value.k = "array" -> UNION {Nodes(value.e[i]) : i \in DOMAIN value.e}
    [] OTHER -> {}

(* the nodes of a result that carry both identity fields *)
Entities(value) ==
  {n \in Nodes(value) : Has(n.f, "__typename") /\ Has(n.f, "__id")}

Identity(n) == <<Get(n.f, "__typename"), Get(n.f, "__id")>>

(* the key under which the class in use files an entity *)
EntityKey(typename, id) ==
  IF impl = "cache" THEN bdoCacheKey(typename, id)
  ELSE makeBdoCacheKey(typename, id)

KeyOf(n) == EntityKey(Get(n.f, "__typename"), Get(n.f, "__id"))

CachedIdentities == {Identity(n) : n \in UNION {Entities(d) : d \in cached}}

LastReturned == last.status = "returned"

-----------------------------------------------------------------------------
(* C1: after any sequence of updateCache calls the entity store holds one
   record for every distinct (typename, id) pair that occurred in a cached
   result, distinct pairs have distinct records, and a call that only
   returns entities already stored leaves the number of records as it was. *)
SingleRecordPerEntity ==
  /\ \A p \in CachedIdentities : EntityKey(p[1], p[2]) \in DOMAIN bdoCache
  /\ Cardinality({EntityKey(p[1], p[2]) : p \in CachedIdentities})
       = Cardinality(CachedIdentities)
  /\ (/\ LastReturned
      /\ \A n \in Entities(last.q.data) : KeyOf(n) \in DOMAIN last.pre.bdoCache)
     => Cardinality(DOMAIN bdoCache) = Cardinality(DOMAIN last.pre.bdoCache)

(* Movie 1 has been returned by two different cached results, the second
   one when its record was already stored *)
SingleRecordPerEntityWitness ==
  /\ LastReturned
  /\ Entities(last.q.data) # {}
  /\ \A n \in Entities(last.q.data) : KeyOf(n) \in DOMAIN last.pre.bdoCache
  /\ Cardinality({d \in cached :
                    <<Str("Movie"), Str("1")>> \in {Identity(n) : n \in Entities(d)}}) >= 2
  /\ Cardinality(CachedIdentities) >= 2

-----------------------------------------------------------------------------
(* Views and what they show *)

ViewIdentity(id) == <<Get(sdos[id], "__typename"), Get(sdos[id], "__id")>>

(* the views of an entity that some returned call handed out *)
ViewsOf(identity) == {id \in returned : ViewIdentity(id) = identity}

NewViews == (Len(last.pre.sdos) + 1)..Len(sdos)

(* a stored value shows a delivered one: scalars are equal, an entity is
   shown by a view of that entity, a list or a plain object member by member *)
RECURSIVE Holds(_, _)
Holds(stored, raw) ==
  CASE raw.k = "array" ->
         /\ stored.k = "array"
         /\ Len(stored.e) = Len(raw.e)
         /\ \A i \in DOMAIN raw.e : Holds(stored.e[i], raw.e[i])
    [] raw.k = "object" /\ raw \in Entities(raw) ->
         /\ stored.k = "sdo"
         /\ ViewIdentity(stored.id) = Identity(raw)
    [] raw.k = "object" /\ raw \notin Entities(raw) ->
         /\ stored.k = "object"
         /\ Names(stored.f) = Names(raw.f)
         /\ \A i \in DOMAIN raw.f : Holds(Get(stored.f, raw.f[i][1]), raw.f[i][2])
    [] OTHER -> stored = raw

(* the entity node n of the last result reached every view of n that
   carries the field *)
Reached(n, views) ==
  \A i \in DOMAIN n.f : \A v \in views :
     Has(sdos[v], n.f[i][1]) => Holds(Get(sdos[v], n.f[i][1]), n.f[i][2])

-----------------------------------------------------------------------------
(* C2: when a call that delivers an entity returns, every view of that entity
   handed out by this or an earlier call that contains a delivered field
   holds the delivered value of the field. *)
UpdateReachesEveryView ==
  LastReturned =>
    \A n \in Entities(last.q.data) : Reached(n, ViewsOf(Identity(n)))

(* the fields of every view are the fields it was created with *)
FieldsFixed == \A id \in DOMAIN sdos : Names(sdos[id]) = Names(born[id])

(* C3: in the per-field cache a view keeps the fields it was created with,
   so a field only another query selected never appears on it, and every
   view of an entity that selected a field the last returned call delivered
   holds the delivered value. *)
PerFieldViews ==
  impl = "cache" =>
    /\ FieldsFixed
    /\ LastReturned =>
         \A n \in Entities(last.q.data) :
            Reached(n, {v \in ViewsOf(Identity(n)) : v \notin NewViews})

-----------------------------------------------------------------------------
(* the views registered on a record, whatever the field *)
Listeners(key) ==
  IF key \notin DOMAIN bdoCache THEN {}
  ELSE IF impl = "cache"
       THEN UNION {bdoCache[key].listeners[n] : n \in DOMAIN bdoCache[key].listeners}
       ELSE bdoCache[key].listeners

RECURSIVE SumOver(_, _)
SumOver(count, domain) ==
  IF domain = {} THEN 0
  ELSE LET i == CHOOSE j \in domain : TRUE
       IN count[i] + SumOver(count, domain \ {i})

(* how many times an entity occurs in a result, at any position *)
RECURSIVE Occurrences(_, _)
Occurrences(value, identity) ==
  CASE value.k = "object" ->
         (IF value \in Entities(value) /\ Identity(value) = identity THEN 1 ELSE 0)
         + SumOver([i \in DOMAIN value.f |-> Occurrences(value.f[i][2], identity)],
                   DOMAIN value.f)
    [] value.k = "array" ->
         SumOver([i \in DOMAIN value.e |-> Occurrences(value.e[i], identity)],
                 DOMAIN value.e)
    [] OTHER -> 0

ViewIdentities == {ViewIdentity(id) : id \in DOMAIN sdos}

(* C4: in the normalize cache every occurrence of an entity in a cached
   result adds one new view, and the record of the entity has every view of
   the entity registered as a listener: k occurrences, k listener views. *)
EveryOccurrenceListens ==
  impl = "core" =>
    /\ \A p \in ViewIdentities \cup {Identity(n) : n \in Entities(last.q.data)} :
         Cardinality({id \in NewViews : ViewIdentity(id) = p})
           = Occurrences(last.q.data, p)
    /\ \A p \in ViewIdentities :
         Listeners(EntityKey(p[1], p[2])) = {id \in DOMAIN sdos : ViewIdentity(id) = p}

-----------------------------------------------------------------------------
(* the key under which the class in use stores the tree of a query *)
ResultTreeKey(q) ==
  IF impl = "cache" THEN srtCacheKey(q.name, q.variables).key
  ELSE makeResultTreeCacheKey(q.name, q.variables)

IsEntityList(value) ==
  /\ value.k = "array"
  /\ Len(value.e) >= 1
  /\ \A i \in DOMAIN value.e : value.e[i].k = "object" /\ value.e[i] \in Entities(value.e[i])

(* the last call delivered, in its field i, a list of distinct entities none
   of which had a record *)
DeliveredNewEntities(i) ==
  LET list == last.q.data.f[i][2] IN
  /\ IsEntityList(list)
  /\ \A j \in DOMAIN list.e : KeyOf(list.e[j]) \notin DOMAIN last.pre.bdoCache
  /\ \A j, k \in DOMAIN list.e : j # k => Identity(list.e[j]) # Identity(list.e[k])

(* the stored tree of the last call holds, for field i, one view per
   delivered entity, in order, each registered on its own record only *)
StoredViewList(i) ==
  LET list == last.q.data.f[i][2]
      key == ResultTreeKey(last.q)
  IN /\ key \in DOMAIN srtCache
     /\ LET stored == Get(srtCache[key].f, last.q.data.f[i][1]) IN
        /\ stored.k = "array"
        /\ Len(stored.e) = Len(list.e)
        /\ \A j \in DOMAIN list.e :
              /\ stored.e[j].k = "sdo"
              /\ ViewIdentity(stored.e[j].id) = Identity(list.e[j])
              /\ \A k \in DOMAIN bdoCache :
                    stored.e[j].id \in Listeners(k) <=> k = KeyOf(list.e[j])

(* C5: a call whose result field is a list of N entities, distinct and all
   new, completes normally, creates a record for each of them, and stores a
   list of N views in delivery order, the i-th registered on the i-th
   entity's record and on no other. *)
ListOfNewEntities ==
  \A i \in DOMAIN last.q.data.f :
     (last.status # "none" /\ DeliveredNewEntities(i)) =>
        /\ LastReturned
        /\ \A j \in DOMAIN last.q.data.f[i][2].e :
              KeyOf(last.q.data.f[i][2].e[j]) \in DOMAIN bdoCache
        /\ Cardinality(DOMAIN bdoCache \ DOMAIN last.pre.bdoCache)
             = Cardinality({Identity(n) : n \in Entities(last.q.data)})
        /\ StoredViewList(i)

-----------------------------------------------------------------------------
(* the last result has an entity below the object of one of its fields *)
DeliveredNestedEntities ==
  /\ last.status # "none"
  /\ \E i \in DOMAIN last.q.data.f :
        /\ last.q.data.f[i][2].k = "object"
        /\ Entities(last.q.data.f[i][2]) \ {last.q.data.f[i][2]} # {}

(* C6: normalizing a result with nested entities leaves one record per
   distinct (typename, id) found at any depth, and every entity of the
   result, whatever its ancestors, has a view built by the call registered
   on its record. *)
NestedEntitiesNormalized ==
  DeliveredNestedEntities =>
    /\ \A n \in Entities(last.q.data) :
          /\ KeyOf(n) \in DOMAIN bdoCache
          /\ \E v \in NewViews :
                ViewIdentity(v) = Identity(n) /\ v \in Listeners(KeyOf(n))
    /\ Cardinality({KeyOf(n) : n \in Entities(last.q.data)})
         = Cardinality({Identity(n) : n \in Entities(last.q.data)})

-----------------------------------------------------------------------------
(* the views a stored value refers to, at any depth of plain objects and lists *)
RECURSIVE Refs(_)
Refs(value) ==
  CASE value.k = "sdo" -> {value.id}
    [] value.k = "object" -> UNION {Refs(value.f[i][2]) : i \in DOMAIN value.f}
    [] value.k = "array" -> UNION {Refs(value.e[i]) : i \in DOMAIN value.e}
    [] OTHER -> {}

OldViews == DOMAIN last.pre.sdos

(* the views that, before the last call, sat below another view or below a
   plain object of a stored tree *)
NestedBefore ==
  UNION {Refs(Obj(last.pre.sdos[w])) : w \in OldViews}
  \cup UNION {UNION {Refs(last.pre.srtCache[k].f[i][2]) \ {v \in OldViews :
                        last.pre.srtCache[k].f[i][2] = Sdo(v)} :
                     i \in DOMAIN last.pre.srtCache[k].f} :
              k \in DOMAIN last.pre.srtCache}

(* the last result is exactly one entity, with only scalar fields *)
OnlyEntity(G) ==
  /\ last.status # "none"
  /\ Len(last.q.data.f) = 1
  /\ last.q.data.f[1][2] = G
  /\ Entities(last.q.data) = {G}

(* C7: a call whose result contains only entity G, cached before as a nested
   child, writes the delivered fields into every earlier view of G and
   changes nothing else: no view of another entity, no field of a view of G
   that was not delivered, no other record. *)
NestedUpdateFrame ==
  \A G \in Entities(last.q.data) :
     (/\ OnlyEntity(G)
      /\ \E v \in NestedBefore \cap returned : ViewIdentity(v) = Identity(G))
     =>
     /\ Reached(G, {v \in ViewsOf(Identity(G)) : v \in OldViews})
     /\ \A v \in OldViews :
           IF ViewIdentity(v) = Identity(G)
           THEN \A i \in DOMAIN last.pre.sdos[v] :
                   last.pre.sdos[v][i][1] \notin Names(G.f)
                   => Get(sdos[v], last.pre.sdos[v][i][1]) = last.pre.sdos[v][i][2]
           ELSE sdos[v] = last.pre.sdos[v]
     /\ DOMAIN bdoCache = DOMAIN last.pre.bdoCache
     /\ \A k \in DOMAIN bdoCache :
           k # KeyOf(G) => bdoCache[k] = last.pre.bdoCache[k]

-----------------------------------------------------------------------------
IsPlainObject(value) == value.k = "object" /\ value \notin Entities(value)

(* every plain object below an entity of the last result is on a view the
   call built for that entity, as delivered *)
PlainFieldsOnViews ==
  \A n \in Entities(last.q.data) : \A i \in DOMAIN n.f :
     (last.status # "none" /\ IsPlainObject(n.f[i][2])) =>
        \E v \in NewViews :
           /\ ViewIdentity(v) = Identity(n)
           /\ Has(sdos[v], n.f[i][1])
           /\ Holds(Get(sdos[v], n.f[i][1]), n.f[i][2])

(* the plain objects directly below the result are on the stored tree *)
PlainFieldsOnTree ==
  \A i \in DOMAIN last.q.data.f :
     (LastReturned /\ IsPlainObject(last.q.data.f[i][2])) =>
        /\ ResultTreeKey(last.q) \in DOMAIN srtCache
        /\ Holds(Get(srtCache[ResultTreeKey(last.q)].f, last.q.data.f[i][1]),
                 last.q.data.f[i][2])

(* C8: a nested object without the (typename, id) pair is stored on its
   parent with exactly the fields and values delivered, and the call creates
   no record for it: every record the call adds belongs to an entity of the
   result. *)
PlainObjectInline ==
  /\ PlainFieldsOnViews
  /\ PlainFieldsOnTree
  /\ (DOMAIN bdoCache \ DOMAIN last.pre.bdoCache)
       \subseteq {KeyOf(n) : n \in Entities(last.q.data)}

-----------------------------------------------------------------------------
(* every field of the last result is an empty list *)
DeliveredEmptyLists ==
  /\ last.status # "none"
  /\ Len(last.q.data.f) >= 1
  /\ \A i \in DOMAIN last.q.data.f : last.q.data.f[i][2] = Arr(<<>>)

(* C9: caching a result whose field is an empty list returns, stores under
   the query's key a tree whose field is an empty list, and leaves the entity
   store as it was. *)
EmptyListStored ==
  DeliveredEmptyLists =>
    /\ LastReturned
    /\ ResultTreeKey(last.q) \in DOMAIN srtCache
    /\ srtCache[ResultTreeKey(last.q)].k = "object"
    /\ \A i \in DOMAIN last.q.data.f :
          Get(srtCache[ResultTreeKey(last.q)].f, last.q.data.f[i][1]) = Arr(<<>>)
    /\ bdoCache = last.pre.bdoCache

(* searchMovies returned no movie on a cache that already holds records; the
   empty list is stored under the key of the query *)
EmptyListStoredWitness ==
  /\ DeliveredEmptyLists
  /\ LastReturned
  /\ last.q.name = "searchMovies"
  /\ ResultTreeKey(last.q) \notin DOMAIN last.pre.srtCache
  /\ srtCache[ResultTreeKey(last.q)] = Obj(<<<<"movies", Arr(<<>>)>>>>)
  /\ bdoCache # <<>>

-----------------------------------------------------------------------------
(* C10: when a result delivers null for a field of an entity, the call
   returns, the view it built for the entity holds null in that field, and
   the only records the call adds are those of the entities of the result. *)
NullFieldStored ==
  \A n \in Entities(last.q.data) : \A i \in DOMAIN n.f :
     (last.status # "none" /\ n.f[i][2] = Null) =>
        /\ LastReturned
        /\ \E v \in NewViews :
              /\ ViewIdentity(v) = Identity(n)
              /\ Has(sdos[v], n.f[i][1])
              /\ Get(sdos[v], n.f[i][1]) = Null
        /\ (DOMAIN bdoCache \ DOMAIN last.pre.bdoCache)
             \subseteq {KeyOf(m) : m \in Entities(last.q.data)}

-----------------------------------------------------------------------------
(* The static key functions on their own.  A key is a JavaScript string;   *)
(* Text spells the pieces of a key out, so that two keys are compared      *)
(* character by character as two strings are.                              *)

Spell(s) ==
  CASE s = "Movie" -> <<"M", "o", "v", "i", "e">>
    [] s = "Actor" -> <<"A", "c", "t", "o", "r">>
    [] s = "Movie|1" -> <<"M", "o", "v", "i", "e", "|", "1">>
    [] s = "listMovies" -> <<"l", "i", "s", "t", "M", "o", "v", "i", "e", "s">>
    [] s = "getMovie" -> <<"g", "e", "t", "M", "o", "v", "i", "e">>
    [] s = "limit" -> <<"l", "i", "m", "i", "t">>
    [] s = "title" -> <<"t", "i", "t", "l", "e">>
    [] s = "filter" -> <<"f", "i", "l", "t", "e", "r">>
    [] s = "id" -> <<"i", "d">>
    [] s = "10" -> <<"1", "0">>
    [] s = "20" -> <<"2", "0">>
    [] s = "null" -> <<"n", "u", "l", "l">>
    [] s = "true" -> <<"t", "r", "u", "e">>
    [] s = "false" -> <<"f", "a", "l", "s", "e">>
    [] s = "undefined" -> <<"u", "n", "d", "e", "f", "i", "n", "e", "d">>
    [] OTHER -> <<s>>

RECURSIVE Text(_)
Text(key) == IF key = <<>> THEN <<>> ELSE Spell(Head(key)) \o Text(Tail(key))

KeyNames == {"listMovies", "getMovie"}

KeyVariables ==
  { Obj(<<<<"limit", Num(10)>>>>),
    Obj(<<<<"limit", Num(20)>>>>),
    Obj(<<<<"id", Str("1")>>, <<"title", Str("x")>>>>),
    Obj(<<<<"title", Str("x")>>, <<"id", Str("1")>>>>),
    Obj(<<<<"filter", Obj(<<<<"a", Num(1)>>, <<"b", Num(2)>>>>)>>>>),
    Obj(<<<<"filter", Obj(<<<<"b", Num(2)>>, <<"a", Num(1)>>>>)>>>>),
    Num(10),
    Num(20),
    Arr(<<Num(10)>>),
    Arr(<<Num(20)>>) }

KeyTypenames == {"Movie", "Actor", "Movie|1"}

KeyIds ==
  { Str("1"),
    Str("2"),
    Num(1),
    Obj(<<<<"a", Num(1)>>, <<"b", Num(2)>>>>),
    Obj(<<<<"b", Num(2)>>, <<"a", Num(1)>>>>),
    Obj(<<<<"a", Num(1)>>, <<"b", Num(1)>>>>) }

TreeKeyArgs == [name : KeyNames, value : KeyVariables]
EntityKeyArgs == [name : KeyTypenames, value : KeyIds]

KeyInit ==
  /\ keyArgs \in [fn : {"srtCacheKey", "makeResultTreeCacheKey"},
                  a : TreeKeyArgs, b : TreeKeyArgs]
             \cup [fn : {"bdoCacheKey", "makeBdoCacheKey"},
                   a : EntityKeyArgs, b : EntityKeyArgs]
  /\ keys = <<>>
  /\ impl = IF keyArgs.fn \in {"srtCacheKey", "bdoCacheKey"} THEN "cache" ELSE "core"
  /\ srtCache = <<>>
  /\ bdoCache = <<>>
  /\ sdos = <<>>
  /\ born = <<>>
  /\ returned = {}
  /\ cached = {}
  /\ calls = 0
  /\ last = NoCall
  /\ classified = Undefined
  /\ verdict = <<>>

Returned(key) == [ok |-> TRUE, key |-> key]

KeyFrame ==
  UNCHANGED <<impl, srtCache, bdoCache, sdos, born, returned, cached, calls,
              last, keyArgs, classified, verdict>>

callSrtCacheKey ==
  /\ keyArgs.fn = "srtCacheKey"
  /\ keys = <<>>
  /\ keys' = <<srtCacheKey(keyArgs.a.name, keyArgs.a.value),
               srtCacheKey(keyArgs.b.name, keyArgs.b.value)>>
  /\ KeyFrame

callMakeResultTreeCacheKey ==
  /\ keyArgs.fn = "makeResultTreeCacheKey"
  /\ keys = <<>>
  /\ keys' = <<Returned(makeResultTreeCacheKey(keyArgs.a.name, keyArgs.a.value)),
               Returned(makeResultTreeCacheKey(keyArgs.b.name, keyArgs.b.value))>>
  /\ KeyFrame

callBdoCacheKey ==
  /\ keyArgs.fn = "bdoCacheKey"
  /\ keys = <<>>
  /\ keys' = <<Returned(bdoCacheKey(Str(keyArgs.a.name), keyArgs.a.value)),
               Returned(bdoCacheKey(Str(keyArgs.b.name), keyArgs.b.value))>>
  /\ KeyFrame

callMakeBdoCacheKey ==
  /\ keyArgs.fn = "makeBdoCacheKey"
  /\ keys = <<>>
  /\ keys' = <<Returned(makeBdoCacheKey(Str(keyArgs.a.name), keyArgs.a.value)),
               Returned(makeBdoCacheKey(Str(keyArgs.b.name), keyArgs.b.value))>>
  /\ KeyFrame

KeyNext ==
  \/ callSrtCacheKey
  \/ callMakeResultTreeCacheKey
  \/ callBdoCacheKey
  \/ callMakeBdoCacheKey

KeySpec == KeyInit /\ [][KeyNext]_vars

-----------------------------------------------------------------------------
(* two values are equal up to the insertion order of the keys of their
   records, at any depth *)
RECURSIVE SameUpToOrder(_, _)
SameUpToOrder(x, y) ==
  CASE x.k = "object" /\ y.k = "object" ->
         /\ Len(x.f) = Len(y.f)
         /\ Names(x.f) = Names(y.f)
         /\ \A i \in DOMAIN x.f : SameUpToOrder(x.f[i][2], Get(y.f, x.f[i][1]))
    [] x.k = "array" /\ y.k = "array" ->
         /\ Len(x.e) = Len(y.e)
         /\ \A i \in DOMAIN x.e : SameUpToOrder(x.e[i], y.e[i])
    [] OTHER -> x = y

TreeKeysReturned ==
  /\ keys # <<>>
  /\ keyArgs.fn \in {"srtCacheKey", "makeResultTreeCacheKey"}

EntityKeysReturned ==
  /\ keys # <<>>
  /\ keyArgs.fn \in {"bdoCacheKey", "makeBdoCacheKey"}

SameKeys == keys[1].ok /\ keys[2].ok /\ Text(keys[1].key) = Text(keys[2].key)

(* C11: for one query name and two variable records equal up to the
   insertion order of their keys at any nesting level, the result-tree key
   function returns the same key. *)
TreeKeyOrderStable ==
  (/\ TreeKeysReturned
   /\ keyArgs.a.name = keyArgs.b.name
   /\ SameUpToOrder(keyArgs.a.value, keyArgs.b.value))
  => SameKeys

DifferentKeys == keys[1].ok /\ keys[2].ok /\ Text(keys[1].key) # Text(keys[2].key)

(* C12: the result-tree key function gives equal keys for equal arguments,
   and different keys whenever the query names differ or the variables
   differ in a value, be they records, scalars or arrays. *)
TreeKeyInjective ==
  TreeKeysReturned =>
    /\ keyArgs.a = keyArgs.b => SameKeys
    /\ (\/ keyArgs.a.name # keyArgs.b.name
        \/ ~SameUpToOrder(keyArgs.a.value, keyArgs.b.value))
       => DifferentKeys

(* C13: the entity key function gives the same key for the same
   (typename, id) pair and different keys for two pairs that differ in the
   typename or in the id. *)
EntityKeyDistinct ==
  EntityKeysReturned =>
    /\ keyArgs.a = keyArgs.b => SameKeys
    /\ (\/ keyArgs.a.name # keyArgs.b.name
        \/ ~SameUpToOrder(keyArgs.a.value, keyArgs.b.value))
       => DifferentKeys

(* the keys of ('Movie', '1') and ('Actor', '1') have been computed and
   differ *)
EntityKeyDistinctWitness ==
  /\ EntityKeysReturned
  /\ DifferentKeys
  /\ keyArgs.a = [name |-> "Movie", value |-> Str("1")]
  /\ keyArgs.b = [name |-> "Actor", value |-> Str("1")]

(* C14: two nodes of one type whose composite identifiers are equal up to
   the order of the identifier's fields get the same entity key. *)
EntityKeyOrderStable ==
  (/\ EntityKeysReturned
   /\ keyArgs.a.name = keyArgs.b.name
   /\ SameUpToOrder(keyArgs.a.value, keyArgs.b.value))
  => SameKeys

-----------------------------------------------------------------------------
(* the tree stored under key k is the one the last call built from its data *)
StoresLastTree(k) ==
  /\ k \in DOMAIN srtCache
  /\ srtCache[k].k = "object"
  /\ Names(srtCache[k].f) = Names(last.q.data.f)
  /\ \A i \in DOMAIN last.q.data.f :
        Holds(Get(srtCache[k].f, last.q.data.f[i][1]), last.q.data.f[i][2])
  /\ Refs(srtCache[k]) \subseteq NewViews

(* C15: updateCache stores the tree it builds under the key of (query name,
   variables), in place of any tree an earlier execution stored there, and
   leaves the entry of every other key as it was. *)
StoreOverwrites ==
  last.status # "none" =>
    /\ LastReturned
    /\ StoresLastTree(ResultTreeKey(last.q))
    /\ DOMAIN srtCache = DOMAIN last.pre.srtCache \cup {ResultTreeKey(last.q)}
    /\ \A k \in DOMAIN last.pre.srtCache :
          k # ResultTreeKey(last.q) => srtCache[k] = last.pre.srtCache[k]

-----------------------------------------------------------------------------
(* the views that can be reached from a set of views *)
RECURSIVE ViewClosure(_)
ViewClosure(S) ==
  LET more == S \cup UNION {Refs(Obj(sdos[v])) : v \in S}
  IN IF more = S THEN S ELSE ViewClosure(more)

(* the views of the trees the cache stores now *)
StoredViews == ViewClosure(UNION {Refs(srtCache[k]) : k \in DOMAIN srtCache})

(* the views of returned trees whose cache entry has been overwritten *)
OverwrittenViews == returned \ StoredViews

KeyOfView(v) == EntityKey(ViewIdentity(v)[1], ViewIdentity(v)[2])

(* view v is a listener of its record for every field it contains *)
Registered(v) ==
  /\ KeyOfView(v) \in DOMAIN bdoCache
  /\ IF impl = "cache"
     THEN \A name \in Names(sdos[v]) :
             /\ name \in DOMAIN bdoCache[KeyOfView(v)].listeners
             /\ v \in bdoCache[KeyOfView(v)].listeners[name]
     ELSE v \in bdoCache[KeyOfView(v)].listeners

(* C16: the views of a tree whose cache entry was overwritten by a later
   execution of the same query stay registered as listeners, and hold the
   value the last returned call delivered for every field they contain. *)
OverwrittenTreeObserves ==
  /\ \A v \in OverwrittenViews : Registered(v)
  /\ LastReturned =>
       \A n \in Entities(last.q.data) :
          Reached(n, {v \in OverwrittenViews : ViewIdentity(v) = Identity(n)})

-----------------------------------------------------------------------------
HasValue(f, name) == Has(f, name) /\ Get(f, name) \notin {Null, Undefined}

(* a node with a typename but a null or absent identifier, or the reverse *)
Malformed(n) ==
  /\ n.k = "object"
  /\ HasValue(n.f, "__typename") # HasValue(n.f, "__id")
  /\ Has(n.f, "__typename") \/ Has(n.f, "__id")

(* C17: a call whose result has a node with a typename but a null or absent
   identifier, or the reverse, returns; it adds no record under the key of
   that node and builds no view for it. *)
MalformedNodeInert ==
  \A n \in Nodes(last.q.data) :
     (last.status # "none" /\ Malformed(n)) =>
        /\ LastReturned
        /\ KeyOf(n) \notin DOMAIN bdoCache
        /\ \A v \in NewViews : ViewIdentity(v) # Identity(n)

-----------------------------------------------------------------------------
(* an array whose elements disagree: some scalars, some selection sets *)
IsMixed(value) ==
  /\ value.k = "array"
  /\ \E i \in DOMAIN value.e : isScalar(value.e[i])
  /\ \E i \in DOMAIN value.e : isShallowSelectionSet(value.e[i])

(* the record of entity node m is what it was before the last call *)
RecordUntouched(m) ==
  IF KeyOf(m) \in DOMAIN bdoCache
  THEN /\ KeyOf(m) \in DOMAIN last.pre.bdoCache
       /\ bdoCache[KeyOf(m)] = last.pre.bdoCache[KeyOf(m)]
  ELSE KeyOf(m) \notin DOMAIN last.pre.bdoCache

(* C18: when a field of a delivered entity holds a mixed array, the call
   returns, the new view of the entity holds the array exactly as delivered,
   and no element of the array gets a record, a merge or a view. *)
MixedArrayPassedThrough ==
  \A n \in Entities(last.q.data) : \A i \in DOMAIN n.f :
    (last.status # "none" /\ IsMixed(n.f[i][2])) =>
      /\ LastReturned
      /\ \E v \in NewViews : ViewIdentity(v) = Identity(n)
      /\ \A v \in NewViews :
           ViewIdentity(v) = Identity(n) => Get(sdos[v], n.f[i][1]) = n.f[i][2]
      /\ \A m \in Entities(n.f[i][2]) :
           /\ RecordUntouched(m)
           /\ \A v \in NewViews : ViewIdentity(v) # Identity(m)

-----------------------------------------------------------------------------
(* field i of the delivered entity n is new to the stored record of n: the
   record existed before the last call and had no listener set for it *)
NewToRecord(n, i) ==
  /\ impl = "cache"
  /\ last.status # "none"
  /\ KeyOf(n) \in DOMAIN last.pre.bdoCache
  /\ n.f[i][1] \notin DOMAIN last.pre.bdoCache[KeyOf(n)].listeners

(* C19: when a result delivers, for an entity already stored, a field the
   record has no listener set for, the call returns, the record has a
   listener set for the field and a new view of the entity is in it. *)
NewFieldRegistered ==
  \A n \in Entities(last.q.data) : \A i \in DOMAIN n.f :
    NewToRecord(n, i) =>
      /\ LastReturned
      /\ n.f[i][1] \in DOMAIN bdoCache[KeyOf(n)].listeners
      /\ \E v \in NewViews :
           /\ ViewIdentity(v) = Identity(n)
           /\ v \in bdoCache[KeyOf(n)].listeners[n.f[i][1]]

-----------------------------------------------------------------------------
(* the key of the last call's result tree could not be serialized *)
KeySerializationFailed ==
  impl = "cache" /\ ~srtCacheKey(last.q.name, last.q.variables).ok

(* C20: updateCache throws for no shape of the result data; a call that
   throws is one whose result tree key could not be serialized. *)
OnlyKeyFailureSurfaces ==
  last.status = "threw" => KeySerializationFailed

-----------------------------------------------------------------------------
(* no entity key occurs in the result with two different nodes *)
NoConflict(data) ==
  \A n, m \in Entities(data) : Identity(n) = Identity(m) => n = m

(* a stored value has the shape and the values of a delivered one: lists
   member by member, objects and views field by field *)
RECURSIVE Mirrors(_, _)
Mirrors(stored, raw) ==
  CASE raw.k = "array" ->
         /\ stored.k = "array"
         /\ Len(stored.e) = Len(raw.e)
         /\ \A i \in DOMAIN raw.e : Mirrors(stored.e[i], raw.e[i])
    [] raw.k = "object" ->
         /\ stored.k \in {"sdo", "object"}
         /\ LET f == IF stored.k = "sdo" THEN sdos[stored.id] ELSE stored.f IN
            /\ Names(f) = Names(raw.f)
            /\ \A i \in DOMAIN raw.f : Mirrors(Get(f, raw.f[i][1]), raw.f[i][2])
    [] OTHER -> stored = raw

(* C21: when updateCache returns for a result in which no entity key occurs
   with two different nodes, the tree stored under the result's key has the
   field names, the list lengths and orders, and in every view the field
   names and values of the result's data. *)
TreeMirrorsData ==
  (LastReturned /\ NoConflict(last.q.data)) =>
    /\ ResultTreeKey(last.q) \in DOMAIN srtCache
    /\ Mirrors(srtCache[ResultTreeKey(last.q)], last.q.data)

-----------------------------------------------------------------------------
(* The classifier predicates applied to one value *)

ClassifierValues ==
  { Undefined, Null, Bool(TRUE), Bool(FALSE),
    Num(0), Num(1), Num(-1), Num(1999),
    Str(""), Str("a"), Str("Movie"), Str("null"),
    BigInt(1),
    Arr(<<>>), Arr(<<Num(1)>>), Arr(<<Null>>), Arr(<<Str("a"), Str("b")>>),
    Arr(<<Arr(<<>>)>>), Arr(<<Obj(<<>>)>>), Arr(<<movieSimple1>>),
    Arr(<<Str("classic"), tagEntity>>),
    Obj(<<>>), Obj(<<<<"a", Num(1)>>>>), Obj(<<<<"a", Undefined>>>>),
    Obj(<<<<"a", Null>>>>), Obj(<<<<"a", Arr(<<>>)>>>>), Obj(<<<<"a", Obj(<<>>)>>>>),
    primaryGenre, genreNullId, tagNullTypename, movieSimple1, movieWithReviews,
    movieTagged, featured }

ClassifyInit ==
  /\ classified \in ClassifierValues
  /\ verdict = <<>>
  /\ impl = "cache"
  /\ srtCache = <<>>
  /\ bdoCache = <<>>
  /\ sdos = <<>>
  /\ born = <<>>
  /\ returned = {}
  /\ cached = {}
  /\ calls = 0
  /\ last = NoCall
  /\ keyArgs = NoArgs
  /\ keys = <<>>

ClassifyFrame ==
  UNCHANGED <<impl, srtCache, bdoCache, sdos, born, returned, cached, calls,
              last, keyArgs, keys, classified>>

callIsScalar ==
  /\ "isScalar" \notin DOMAIN verdict
  /\ verdict' = ("isScalar" :> isScalar(classified)) @@ verdict
  /\ ClassifyFrame

callIsSelectionSet ==
  /\ "isSelectionSet" \notin DOMAIN verdict
  /\ verdict' = ("isSelectionSet" :> isShallowSelectionSet(classified)) @@ verdict
  /\ ClassifyFrame

ClassifyNext ==
  \/ callIsScalar
  \/ callIsSelectionSet

ClassifySpec == ClassifyInit /\ [][ClassifyNext]_vars

(* what the value is, read off the value itself *)
IsPrimitive ==
  classified.k \in {"null", "undefined", "boolean", "number", "string"}
IsObjectWithField == classified.k = "object" /\ classified.f # <<>>

(* C22: isScalar returns true exactly for null, undefined, booleans, numbers
   and strings; isSelectionSet returns true exactly for objects that are not
   arrays and have at least one own field; no value gets true from both, and
   arrays and empty objects get false from both. *)
ClassifierPartition ==
  /\ "isScalar" \in DOMAIN verdict => (verdict["isScalar"] <=> IsPrimitive)
  /\ "isSelectionSet" \in DOMAIN verdict =>
        (verdict["isSelectionSet"] <=> IsObjectWithField)
  /\ DOMAIN verdict = {"isScalar", "isSelectionSet"} =>
        /\ ~(verdict["isScalar"] /\ verdict["isSelectionSet"])
        /\ (classified.k = "array" \/ classified = Obj(<<>>)) =>
              (~verdict["isScalar"] /\ ~verdict["isSelectionSet"])

(* both predicates have answered for a non-empty array that holds an entity *)
ClassifierPartitionWitness ==
  /\ DOMAIN verdict = {"isScalar", "isSelectionSet"}
  /\ classified = Arr(<<movieSimple1>>)
  /\ ~verdict["isScalar"]
  /\ ~verdict["isSelectionSet"]

-----------------------------------------------------------------------------
(* the record under key holds, as server value of every field of node n,
   the value n delivered *)
ServerValuesHold(key, n) ==
  \A i \in DOMAIN n.f :
     /\ n.f[i][1] \in DOMAIN bdoCache[key].serverValues
     /\ Holds(bdoCache[key].serverValues[n.f[i][1]], n.f[i][2])

(* C23: the record the last call created for an entity it observed for the
   first time holds every field of the observed node with its delivered
   value as server value. *)
CreatedRecordHoldsFields ==
  \A n \in Entities(last.q.data) :
    (KeyOf(n) \in DOMAIN bdoCache /\ KeyOf(n) \notin DOMAIN last.pre.bdoCache)
      => ServerValuesHold(KeyOf(n), n)

-----------------------------------------------------------------------------
(* view v is in the listener set the record under key has for field name *)
ListensTo(key, name, v) ==
  /\ name \in DOMAIN bdoCache[key].listeners
  /\ v \in bdoCache[key].listeners[name]

(* C24: in the per-field cache, after every call, a view bound to a record
   is in the record's listener set of a field exactly when the view contains
   the field. *)
ListenersMatchFields ==
  impl = "cache" =>
    \A key \in DOMAIN bdoCache : \A v \in Listeners(key) :
      \A name \in Names(sdos[v]) \cup DOMAIN bdoCache[key].listeners :
         ListensTo(key, name, v) <=> name \in Names(sdos[v])

-----------------------------------------------------------------------------
(* C25: when a returned call delivered an entity that already had a record,
   the record holds afterwards, for every field the call delivered for the
   entity and whatever the kind of its value, the delivered value as server
   value. *)
MergeStoresEveryField ==
  LastReturned =>
    \A n \in Entities(last.q.data) :
      KeyOf(n) \in DOMAIN last.pre.bdoCache =>
        /\ KeyOf(n) \in DOMAIN bdoCache
        /\ ServerValuesHold(KeyOf(n), n)

-----------------------------------------------------------------------------
(* Mirrors, read in the heap of views as it was before the last call *)
RECURSIVE MirroredBefore(_, _)
MirroredBefore(stored, raw) ==
  CASE raw.k = "array" ->
         /\ stored.k = "array"
         /\ Len(stored.e) = Len(raw.e)
         /\ \A i \in DOMAIN raw.e : MirroredBefore(stored.e[i], raw.e[i])
    [] raw.k = "object" ->
         /\ stored.k \in {"sdo", "object"}
         /\ LET f == IF stored.k = "sdo" THEN last.pre.sdos[stored.id] ELSE stored.f IN
            /\ Names(f) = Names(raw.f)
            /\ \A i \in DOMAIN raw.f :
                  MirroredBefore(Get(f, raw.f[i][1]), raw.f[i][2])
    [] OTHER -> stored = raw

(* a nested object, a nested entity or a non-empty list of entities *)
IsNested(value) == value.k = "object" \/ IsEntityList(value)

(* the earlier views of entity node n that contained field name and showed
   for it something else than value *)
ViewsToChange(n, name, value) ==
  {v \in OldViews \cap returned :
     /\ ViewIdentity(v) = Identity(n)
     /\ Has(last.pre.sdos[v], name)
     /\ ~MirroredBefore(Get(last.pre.sdos[v], name), value)}

(* C26: when a returned call delivers for entity P a nested object, a nested
   entity or a list of entities in a field for which an earlier view of P
   showed something else, that view shows the delivered value afterwards. *)
NestedChangePropagates ==
  (LastReturned /\ NoConflict(last.q.data)) =>
    \A n \in Entities(last.q.data) : \A i \in DOMAIN n.f :
      IsNested(n.f[i][2]) =>
        \A v \in ViewsToChange(n, n.f[i][1], n.f[i][2]) :
           Mirrors(Get(sdos[v], n.f[i][1]), n.f[i][2])

-----------------------------------------------------------------------------
(* the fields for which view v is registered with the record under key; the
   normalize class has one listener set per record, and a view in it listens
   for the fields it contains *)
ListenedFields(key, v) ==
  IF impl = "cache"
  THEN {name \in DOMAIN bdoCache[key].listeners : v \in bdoCache[key].listeners[name]}
  ELSE IF v \in bdoCache[key].listeners THEN Names(sdos[v]) ELSE {}

(* C27: between calls every view holds, for each field it is registered
   for, the current server value of the record, and two views registered
   with the same record agree on every scalar field both contain. *)
ListenersHoldServerValues ==
  \A key \in DOMAIN bdoCache :
    /\ \A v \in Listeners(key) : \A name \in ListenedFields(key, v) :
          /\ name \in DOMAIN bdoCache[key].serverValues
          /\ Get(sdos[v], name) = bdoCache[key].serverValues[name]
    /\ \A v, w \in Listeners(key) :
          \A name \in Names(sdos[v]) \cap Names(sdos[w]) :
             (isScalar(Get(sdos[v], name)) /\ isScalar(Get(sdos[w], name)))
               => Get(sdos[v], name) = Get(sdos[w], name)

-----------------------------------------------------------------------------
(* the listeners the record under key had before the last call *)
ListenersBefore(key) ==
  IF impl = "cache"
  THEN UNION {last.pre.bdoCache[key].listeners[n] :
                n \in DOMAIN last.pre.bdoCache[key].listeners}
  ELSE last.pre.bdoCache[key].listeners

(* C28: a record that exists stays: after a call every earlier key still has
   its record with all the listeners it had, and every view a returned call
   registered, also one of a node nested below a node with the same key, is
   still a listener of its record when the call returns. *)
RecordsKeepListeners ==
  /\ \A key \in DOMAIN last.pre.bdoCache :
        /\ key \in DOMAIN bdoCache
        /\ ListenersBefore(key) \subseteq Listeners(key)
  /\ LastReturned =>
        \A v \in NewViews : isNormalizeable(Obj(sdos[v])) =>
           v \in Listeners(KeyOfView(v))

-----------------------------------------------------------------------------
(* C29: no propagation of a call writes to a view that the same call
   created: the views written by the last call all existed before it. *)
NoWriteToNewView == last.wrote \cap NewViews = {}

-----------------------------------------------------------------------------
(* C30: for every field at the top of the result whose value is a scalar,
   the call returns and the stored tree holds that value under the field;
   a result with nothing but scalars at the top leaves the records as they
   were. *)
TopLevelScalarStored ==
  last.status # "none" =>
    /\ \A i \in DOMAIN last.q.data.f :
          isScalar(last.q.data.f[i][2]) =>
            /\ LastReturned
            /\ ResultTreeKey(last.q) \in DOMAIN srtCache
            /\ Has(srtCache[ResultTreeKey(last.q)].f, last.q.data.f[i][1])
            /\ Get(srtCache[ResultTreeKey(last.q)].f, last.q.data.f[i][1])
                 = last.q.data.f[i][2]
    /\ (\A i \in DOMAIN last.q.data.f : isScalar(last.q.data.f[i][2]))
          => bdoCache = last.pre.bdoCache

-----------------------------------------------------------------------------
(* view v carries both identity fields *)
CarriesIdentity(v) == Has(sdos[v], "__typename") /\ Has(sdos[v], "__id")

(* the objects that are neither views nor below a view, in a stored value *)
RECURSIVE PlainObjects(_)
PlainObjects(value) ==
  CASE value.k = "object" ->
         {value} \cup UNION {PlainObjects(value.f[i][2]) : i \in DOMAIN value.f}
    [] value.k = "array" -> UNION {PlainObjects(value.e[i]) : i \in DOMAIN value.e}
    [] OTHER -> {}

(* C31: every listener of a record is a view that carries a typename and an
   id which give the key of that record; the objects propagation wrote to in
   the last call are such listeners, and the trees stored under other keys,
   with the plain objects they hold, are as they were before the call. *)
OnlyEntityViewsListen ==
  /\ \A key \in DOMAIN bdoCache : \A v \in Listeners(key) :
        CarriesIdentity(v) /\ KeyOfView(v) = key
  /\ \A v \in last.wrote : CarriesIdentity(v) /\ v \in Listeners(KeyOfView(v))
  /\ \A k \in DOMAIN last.pre.srtCache :
        (LastReturned /\ k = ResultTreeKey(last.q))
        \/ (k \in DOMAIN srtCache /\ srtCache[k] = last.pre.srtCache[k])

(* a stored tree holds a plain object with a view below it, and the last
   call, for another key, wrote to that view *)
OnlyEntityViewsListenWitness ==
  /\ LastReturned
  /\ \E k \in DOMAIN last.pre.srtCache :
        /\ k # ResultTreeKey(last.q)
        /\ \E o \in PlainObjects(srtCache[k]) \ {srtCache[k]} :
              Refs(o) \cap last.wrote # {}
  /\ \E key \in DOMAIN bdoCache : Cardinality(Listeners(key)) >= 2

-----------------------------------------------------------------------------
(* C32: in the normalize class a call adds no field to a view that existed
   before it: an earlier view of an entity does not get a field that only a
   later result selected. *)
MergeAddsNoField ==
  impl = "core" =>
    \A v \in OldViews : Names(sdos[v]) \subseteq Names(last.pre.sdos[v])

-----------------------------------------------------------------------------
(* C33: a call that throws leaves the stored trees, the records with their
   listeners and server values, and every earlier view as they were. *)
ThrowLeavesCacheUnchanged ==
  last.status = "threw" =>
    /\ srtCache = last.pre.srtCache
    /\ bdoCache = last.pre.bdoCache
    /\ \A v \in OldViews : sdos[v] = last.pre.sdos[v]

-----------------------------------------------------------------------------
(* how deep two stored values are compared through the views they hold *)
MaxDepth == 4

(* two stored values show the same: scalars are equal, lists and objects
   agree member by member, and a view agrees with a view of the same content *)
RECURSIVE Alike(_, _, _)
Alike(a, b, depth) ==
  IF depth = 0 THEN TRUE
  ELSE CASE a.k = "array" ->
              /\ b.k = "array"
              /\ Len(a.e) = Len(b.e)
              /\ \A i \in DOMAIN a.e : Alike(a.e[i], b.e[i], depth)
         [] a.k \in {"sdo", "object"} ->
              /\ b.k = a.k
              /\ LET f == IF a.k = "sdo" THEN sdos[a.id] ELSE a.f
                     g == IF b.k = "sdo" THEN sdos[b.id] ELSE b.f
                 IN /\ Names(f) = Names(g)
                    /\ \A i \in DOMAIN f :
                          Alike(f[i][2], Get(g, f[i][1]), depth - 1)
         [] OTHER -> a = b

(* a function of field names agrees with another one, value by value *)
AlikeValues(m, n) ==
  /\ DOMAIN m = DOMAIN n
  /\ \A name \in DOMAIN m : Alike(m[name], n[name], MaxDepth)

(* the last call cached the result that the call before it had cached *)
Recached ==
  /\ last.status # "none"
  /\ last.prev.status = "returned"
  /\ last.prev.q = last.q

(* C34: caching the result of the previous call once more returns, creates
   no record, leaves every earlier returned view showing what it showed,
   stores a tree like the one it replaces, leaves the other trees and the
   server values as they were, and adds to the listeners new views only. *)
RecacheChangesNothing ==
  Recached =>
    /\ LastReturned
    /\ DOMAIN bdoCache = DOMAIN last.pre.bdoCache
    /\ \A v \in OldViews \cap returned :
          /\ Names(sdos[v]) = Names(last.pre.sdos[v])
          /\ \A i \in DOMAIN sdos[v] :
                Alike(sdos[v][i][2], Get(last.pre.sdos[v], sdos[v][i][1]), MaxDepth)
    /\ DOMAIN srtCache = DOMAIN last.pre.srtCache
    /\ \A k \in DOMAIN srtCache : Alike(srtCache[k], last.pre.srtCache[k], MaxDepth)
    /\ \A key \in DOMAIN bdoCache :
          /\ AlikeValues(bdoCache[key].serverValues,
                         last.pre.bdoCache[key].serverValues)
          /\ ListenersBefore(key) \subseteq Listeners(key)
          /\ Listeners(key) \ ListenersBefore(key) \subseteq NewViews

-----------------------------------------------------------------------------
(* the entity nodes of a value in the order a depth-first traversal leaves
   them: the fields of an object in order and before the object itself, the
   members of a list in order *)
RECURSIVE PostOrder(_)
RECURSIVE PostOrderOfAll(_, _)
PostOrderOfAll(values, i) ==
  IF i > Len(values) THEN <<>>
  ELSE PostOrder(values[i]) \o PostOrderOfAll(values, i + 1)
PostOrder(value) ==
  CASE value.k = "array" -> PostOrderOfAll(value.e, 1)
    [] value.k = "object" ->
         PostOrderOfAll([i \in DOMAIN value.f |-> value.f[i][2]], 1)
         \o (IF value \in Entities(value) THEN <<value>> ELSE <<>>)
    [] OTHER -> <<>>

(* the positions in that order of the nodes of entity p that have the field *)
OccurrencesWith(order, p, name) ==
  {i \in DOMAIN order : Identity(order[i]) = p /\ Has(order[i].f, name)}

Max(S) == CHOOSE i \in S : \A j \in S : j <= i

(* entity p occurs in the result with two different values for the field *)
Conflicting(order, p, name) ==
  \E i, j \in OccurrencesWith(order, p, name) :
     Get(order[i].f, name) # Get(order[j].f, name)

(* C35: when a returned call delivered an entity at several positions with
   different values for a field, every returned view of the entity that
   contains the field holds the value of the occurrence that a depth-first
   traversal of the result visits last. *)
LastOccurrenceWins ==
  LastReturned =>
    LET order == PostOrder(last.q.data) IN
    \A i \in DOMAIN order : \A x \in DOMAIN order[i].f :
      LET p == Identity(order[i])
          name == order[i].f[x][1]
      IN Conflicting(order, p, name) =>
           \A v \in ViewsOf(p) :
              Has(sdos[v], name) =>
                Mirrors(Get(sdos[v], name),
                        Get(order[Max(OccurrencesWith(order, p, name))].f, name))

-----------------------------------------------------------------------------
(* the objects stored as such, outside every view or inside the fields of a
   stored view *)
StoredObjects ==
  UNION {PlainObjects(srtCache[k]) : k \in DOMAIN srtCache}
  \cup UNION {PlainObjects(Obj(sdos[v])) \ {Obj(sdos[v])} : v \in StoredViews}

(* C36: every node of a stored tree that carries a typename and an id is a
   view registered, for each field it contains, as a listener of the record
   stored under its key; no stored tree holds such a node as a plain copy. *)
StoredEntitiesRegistered ==
  /\ \A v \in StoredViews : CarriesIdentity(v) => Registered(v)
  /\ \A o \in StoredObjects : ~(Has(o.f, "__typename") /\ Has(o.f, "__id"))

-----------------------------------------------------------------------------
(* the last call was made for a query executed without variables *)
WithoutVariables ==
  last.status # "none" /\ last.q.variables \in {Undefined, Null}

(* C37: updateCache accepts a query executed without variables (undefined or
   null): the call returns, the tree it built is stored under the key it
   computed, and that key differs from the key of the same query executed
   with a variables record that is not empty. *)
AcceptsMissingVariables ==
  WithoutVariables =>
    /\ LastReturned
    /\ StoresLastTree(ResultTreeKey(last.q))
    /\ \A q \in Queries :
          (q.name = last.q.name /\ q.variables.k = "object" /\ q.variables.f # <<>>)
            => Text(ResultTreeKey(q)) # Text(ResultTreeKey(last.q))

====
